---- MODULE Spec2Model ----
(***************************************************************************)
(* Model of build_website.py: main() loads top400_data.json, renders one   *)
(* static HTML page from it and writes docs/index.html.                    *)
(*                                                                         *)
(* A Python str is a sequence of units.  A unit that comes from the input  *)
(* data is a one-character string ("a", "<", " ").  A unit that comes from *)
(* a literal of the f-string templates, or from html.escape, is a string   *)
(* of several characters ("<a href=\"", "&lt;"), so that concatenation is  *)
(* concatenation of sequences and a raw character of the data can be told  *)
(* from the markup around it.                                              *)
(***************************************************************************)
EXTENDS Integers, Sequences, FiniteSets, TLC

\* ---------------------------------------------------------------- bounds
MaxGenres == 2

MaxReleases == 2

\* ------------------------------------------------------------ str helpers
\* sep.join(items)
RECURSIVE Join(_, _)
Join(sep, items) ==
    IF items = <<>> THEN <<>>
    ELSE IF Len(items) = 1 THEN items[1]
    ELSE items[1] \o sep \o Join(sep, Tail(items))

UpperLetters ==
    <<"A","B","C","D","E","F","G","H","I","J","K","L","M",
      "N","O","P","Q","R","S","T","U","V","W","X","Y","Z">>

LowerLetters ==
    <<"a","b","c","d","e","f","g","h","i","j","k","l","m",
      "n","o","p","q","r","s","t","u","v","w","x","y","z">>

\* str.lower(), unit by unit
lower(s) ==
    [i \in 1..Len(s) |->
        IF \E k \in 1..Len(UpperLetters) : UpperLetters[k] = s[i]
        THEN LowerLetters[CHOOSE k \in 1..Len(UpperLetters) : UpperLetters[k] = s[i]]
        ELSE s[i]]

\* str.replace(old, new) for a one-character old
replace(s, old, new) == [i \in 1..Len(s) |-> IF s[i] = old THEN new ELSE s[i]]

escapeUnitQuoteOff(c) ==
    CASE c = "&" -> "&amp;"
      [] c = "<" -> "&lt;"
      [] c = ">" -> "&gt;"
      [] OTHER   -> c

\* html.escape(s, quote=True): & < > " ' are replaced by entities
escapeUnit(c) ==
    CASE c = "&"  -> "&amp;"
      [] c = "<"  -> "&lt;"
      [] c = ">"  -> "&gt;"
      [] c = "\"" -> "&quot;"
      [] c = "'"  -> "&#x27;"
      [] OTHER    -> c

escape(s) == [i \in 1..Len(s) |-> escapeUnit(s[i])]

SlugOfFirstSpaceOnly(name) ==
    LET l == lower(name)
    IN  [i \in 1..Len(l) |->
            IF l[i] = " " /\ (\A j \in 1..(i - 1) : l[j] # " ") THEN "-" ELSE l[i]]

\* the slug of a genre name (lines 36 and 43)
SlugOf(name) == replace(lower(name), " ", "-")

\* ---------------------------------------------------------------- numbers
\* A JSON integer is kept in two limbs, hi * Limb + lo, so that values around
\* 2^53 (where Python's float stops being exact) fit TLC's integers.
Limb == 2^27

IntV(hi, lo) == [t |-> "int", hi |-> hi, lo |-> lo]

\* a JSON float with value e8 / 8 (exactly representable in binary)
FloatV(e8) == [t |-> "float", e8 |-> e8]

StrV(s) == [t |-> "str", s |-> s]

Null == [t |-> "null"]

DigitUnits == <<"0","1","2","3","4","5","6","7","8","9">>

\* decimal digits of hi * Limb + lo, most significant first
RECURSIVE DigitsOf(_, _)
DigitsOf(hi, lo) ==
    LET t == (hi % 10) * Limb + lo
    IN  IF hi = 0 /\ lo < 10 THEN <<DigitUnits[lo + 1]>>
        ELSE DigitsOf(hi \div 10, t \div 10) \o <<DigitUnits[(t % 10) + 1]>>

RECURSIVE ShiftOf(_)
ShiftOf(hi) == IF hi < 2^26 THEN 0 ELSE 1 + ShiftOf(hi \div 2)

\* float(n) for a Python int: 53 significant bits, round half to even
ToFloat(n) ==
    LET sh   == ShiftOf(n.hi)
        q    == 2^sh
        rem  == n.lo % q
        base == n.lo - rem
        odd  == IF q = Limb THEN n.hi % 2 = 1 ELSE (n.lo \div q) % 2 = 1
        up   == sh > 0 /\ (2 * rem > q \/ (2 * rem = q /\ odd))
        lo2  == IF up THEN base + q ELSE base
    IN  IF lo2 >= Limb THEN IntV(n.hi + 1, lo2 - Limb) ELSE IntV(n.hi, lo2)

\* round half to even of num / den, for num >= 0
RoundHalfEven(num, den) ==
    LET q == num \div den
        r == num % den
    IN  IF 2 * r > den \/ (2 * r = den /\ q % 2 = 1) THEN q + 1 ELSE q

\* the ',' option of the format mini-language: groups of three from the right
RECURSIVE GroupLeft(_)
GroupLeft(ds) ==
    IF Len(ds) <= 3 THEN ds
    ELSE SubSeq(ds, 1, 3) \o <<",">> \o GroupLeft(SubSeq(ds, 4, Len(ds)))

RECURSIVE Group(_)
Group(ds) ==
    IF Len(ds) <= 3 THEN ds
    ELSE Group(SubSeq(ds, 1, Len(ds) - 3)) \o <<",">> \o SubSeq(ds, Len(ds) - 2, Len(ds))

\* f'{x:,.0f}' (line 59)
FormatComma0(x) ==
    IF x.t = "int"
    THEN LET f == ToFloat(x) IN Group(DigitsOf(f.hi, f.lo))
    ELSE Group(DigitsOf(0, RoundHalfEven(x.e8, 8)))

Pad2(n) == <<DigitUnits[(n \div 10) + 1], DigitUnits[(n % 10) + 1]>>

\* f'{x:.2f}' (line 56)
FormatF2(x) ==
    IF x.t = "int"
    THEN LET f == ToFloat(x) IN DigitsOf(f.hi, f.lo) \o <<".", "0", "0">>
    ELSE LET h == RoundHalfEven(x.e8 * 125, 10)
         IN  DigitsOf(0, h \div 100) \o <<".">> \o Pad2(h % 100)

\* f'{x}' for a Python int (lines 57, 58, 62)
FormatStr(x) == DigitsOf(x.hi, x.lo)

EmDash == "U+2014"

\* ------------------------------------------------------------- JSON dicts
HasKey(d, k) == k \in DOMAIN d

\* dict.get(k, default)
Get(d, k, default) == IF HasKey(d, k) THEN d[k] ELSE default

Without(d, k) == [x \in (DOMAIN d) \ {k} |-> d[x]]

\* Python truth value of a JSON value (the test of line 51)
TruthyNotNone(v) == v.t # "null"

Truthy(v) ==
    CASE v.t = "null"  -> FALSE
      [] v.t = "str"   -> Len(v.s) > 0
      [] v.t = "int"   -> v.hi # 0 \/ v.lo # 0
      [] v.t = "float" -> v.e8 # 0

\* s[:n]
Prefix(s, n) == SubSeq(s, 1, IF Len(s) < n THEN Len(s) ELSE n)

\* ------------------------------------------------------------------ input
\* Releases the input file may hold: the optional fields present, null or
\* missing, text with the characters html.escape replaces, power ranks on
\* both sides of a thousands separator and of 2^53.
ReleasePool ==
    << [title |-> <<"A">>, artist |-> <<"B">>,
        rating |-> FloatV(36), have |-> IntV(0, 10), want |-> IntV(0, 2),
        power_rank |-> IntV(0, 1500)],
       [title |-> <<"<", "s", ">">>, artist |-> <<"&", "\"">>,
        link |-> StrV(<<"u", "&", "\"", "v">>),
        rating |-> Null, have |-> Null, want |-> Null, power_rank |-> Null],
       [title |-> <<"C", "'">>, artist |-> <<"D">>, link |-> Null,
        rating |-> FloatV(33), have |-> IntV(0, 0), want |-> IntV(0, 1234),
        power_rank |-> IntV(0, 999)],
       [title |-> <<"E">>, artist |-> <<"<", "F">>, link |-> StrV(<<>>),
        rating |-> IntV(0, 5), have |-> IntV(0, 7), want |-> Null,
        power_rank |-> IntV(0, 1000)],
       [title |-> <<"G", "&">>, artist |-> <<"H">>, link |-> StrV(<<"h", ":", "x">>),
        rating |-> FloatV(39), have |-> Null, want |-> IntV(0, 31),
        power_rank |-> IntV(0, 1234567)],
       [title |-> <<"I">>, artist |-> <<"J">>, link |-> StrV(<<"<", ">">>),
        rating |-> Null, have |-> IntV(0, 1000000), want |-> IntV(0, 5),
        power_rank |-> IntV(2^26, 1)],
       [title |-> <<"K">>, artist |-> <<"L">>,
        rating |-> FloatV(8), have |-> IntV(0, 3), want |-> IntV(0, 4),
        power_rank |-> IntV(2^26, 0)],
       [title |-> <<"M">>, artist |-> <<"N">>,
        rating |-> FloatV(40), have |-> IntV(0, 1), want |-> IntV(0, 1),
        power_rank |-> FloatV(12004)],
       [title |-> <<"O">>, artist |-> <<"P">>,
        have |-> IntV(0, 1), want |-> IntV(0, 1), power_rank |-> IntV(0, 12)],
       [title |-> <<"Q">>, artist |-> <<"R">>,
        rating |-> Null, want |-> IntV(0, 1), power_rank |-> IntV(0, 12)],
       [title |-> <<"S">>, artist |-> <<"T">>,
        rating |-> Null, have |-> IntV(0, 1), power_rank |-> IntV(0, 12)],
       [title |-> <<"U">>, artist |-> <<"V">>,
        rating |-> Null, have |-> IntV(0, 1), want |-> IntV(0, 1)],
       [artist |-> <<"W">>,
        rating |-> Null, have |-> Null, want |-> Null, power_rank |-> Null],
       [title |-> <<"X">>,
        rating |-> Null, have |-> Null, want |-> Null, power_rank |-> Null] >>

GenreNames ==
    << <<"D", "e", "e", "p", " ", "H", "o", "u", "s", "e">>,
       <<"R", "&", "B">>,
       <<"a", "\"", ">", "b">>,
       <<"D", "E", "E", "P", "-", "h", "o", "u", "s", "e">>,
       <<"<", "i", ">", " ", " ", "Z">> >>

\* len releases of the pool, from the s-th on, wrapping round
CyclicSlice(pool, s, len) == [i \in 1..len |-> pool[((s + i - 2) % Len(pool)) + 1]]

NumSlices == 1 + Len(ReleasePool) * MaxReleases

\* the k-th release list: the empty one, then every slice of 1..MaxReleases
ReleaseList(k) ==
    IF k = 1 THEN <<>>
    ELSE CyclicSlice(ReleasePool, ((k - 2) \div MaxReleases) + 1,
                     ((k - 2) % MaxReleases) + 1)

WellFormedGenre(k) ==
    [name     |-> GenreNames[(k % Len(GenreNames)) + 1],
     count    |-> IntV(0, Len(ReleaseList(k))),
     releases |-> ReleaseList(k)]

\* the genres the input file may hold; the last three lack a key
GenreOptions ==
    [k \in 1..NumSlices |-> WellFormedGenre(k)]
    \o << Without(WellFormedGenre(2), "name"),
          Without(WellFormedGenre(3), "count"),
          Without(WellFormedGenre(4), "releases") >>

GenreListOf(n, s, stride) ==
    [i \in 1..n |-> GenreOptions[((s - 1 + (i - 1) * stride) % Len(GenreOptions)) + 1]]

GenreLists ==
    {<<>>}
    \cup {GenreListOf(1, s, 0) : s \in 1..Len(GenreOptions)}
    \cup {GenreListOf(n, s, stride) :
            n \in 2..MaxGenres, s \in 1..Len(GenreOptions),
            stride \in 0..(Len(GenreOptions) - 1)}

TopLevelKeys == <<"snapshot", "total_unique", "total_entries", "generated", "genres">>

DataOf(gs) ==
    [snapshot      |-> StrV(<<"2", "0", "2", "6">>),
     total_unique  |-> IntV(0, 400),
     total_entries |-> IntV(0, 420),
     generated     |-> StrV(<<"2","0","2","6","-","0","1","-","0","2","T","0","9">>),
     genres        |-> gs]

Datasets ==
    {DataOf(gs) : gs \in GenreLists}
    \cup {Without(DataOf(GenreListOf(2, 2, 1)), TopLevelKeys[i]) : i \in 1..Len(TopLevelKeys)}
    \cup {Without(DataOf(<<>>), TopLevelKeys[i]) : i \in 1..Len(TopLevelKeys)}

\* what JSON_PATH holds when main() starts
InputFiles ==
    {[exists |-> TRUE, parses |-> TRUE, data |-> d] : d \in Datasets}
    \cup {[exists |-> FALSE, parses |-> FALSE, data |-> DataOf(<<>>)],
          [exists |-> TRUE, parses |-> FALSE, data |-> DataOf(<<>>)]}

OldContent == <<"<!-- previous build -->">>

NoFile == [exists |-> FALSE, content |-> <<>>]

\* SCRIPT_DIR when main() starts: is docs/ there, is docs/index.html there,
\* may the process create and write under it
Environments ==
    {[dir |-> FALSE, file |-> NoFile, writable |-> TRUE],
     [dir |-> TRUE,  file |-> NoFile, writable |-> TRUE],
     [dir |-> TRUE,  file |-> [exists |-> TRUE, content |-> OldContent], writable |-> TRUE],
     [dir |-> TRUE,  file |-> [exists |-> TRUE, content |-> OldContent], writable |-> FALSE],
     [dir |-> FALSE, file |-> NoFile, writable |-> FALSE]}

\* -------------------------------------------------------------- templates
\* The literal text of the f-strings, one unit per literal fragment
\* (indentation and line breaks inside a fragment are left out).
T_NavLinkOpen  == "<a href=\"#"
T_NavHrefClose == "\">"
T_CountOpen    == " ("
T_NavLinkClose == ")</a>"
T_NavSep       == "\n        "

T_LinkOpen      == "<a href=\""
T_LinkHrefClose == "\" target=\"_blank\" rel=\"noopener\">"
T_LinkClose     == "</a>"

T_RowOpen    == "<tr><td class=\"rank\">"
T_ArtistOpen == "</td><td class=\"artist\"><div class=\"clamp\"><span>"
T_AlbumOpen  == "</span></div></td><td class=\"album\"><div class=\"clamp\">"
T_RatingOpen == "</div></td><td class=\"num rating-col\">"
T_HaveOpen   == "</td><td class=\"num have-col\">"
T_WantOpen   == "</td><td class=\"num want-col\">"
T_PowerOpen  == "</td><td class=\"num\">"
T_RowClose   == "</td></tr>"
T_RowSep     == "\n"

T_SectionOpen  == "<div class=\"table-section\" id=\""
T_SectionIdClose == "\"><div class=\"table-header\"><h2>"
T_SectionCountOpen == " <span class=\"count\">("
T_TbodyOpen    == ")</span></h2></div><table><thead>...</thead><tbody>"
T_TbodyClose   == "</tbody></table></div>"
T_SectionSep   == "\n\n"

T_DocHead   == "<!DOCTYPE html><html lang=\"en\"><head>...</head><body><div class=\"container\">"
T_Header    == "<header><h1>Top Spin Collection</h1></header>"
T_NavOpen   == "<div id=\"genre-nav\">"
T_NavClose  == "</div>"
T_MainOpen  == "<main>"
T_MainClose == "</main>"
T_Footer    == "<footer><div>Community data sourced from <a href=\"https://www.discogs.com\" target=\"_blank\" rel=\"noopener\">Discogs</a></div></footer>"
T_DocTail   == "</div><script>...</script></body></html>"

\* -------------------------------------------------------------- rendering
NoErr == [type |-> "none", key |-> "", at |-> ""]

KeyError(k, stage) == [type |-> "KeyError", key |-> k, at |-> stage]

\* the first key of keys that d lacks, or "" (the order the code reads them in)
RECURSIVE FirstMissing(_, _)
FirstMissing(d, keys) ==
    IF keys = <<>> THEN ""
    ELSE IF ~HasKey(d, Head(keys)) THEN Head(keys)
    ELSE FirstMissing(d, Tail(keys))

TopLevelMissingLenient(d) == FirstMissing(d, <<"generated", "genres">>)

\* lines 24-28: data["snapshot"] ... data["genres"]
TopLevelMissing(d) == FirstMissing(d, TopLevelKeys)

\* line 37
NavItem(g) ==
    <<T_NavLinkOpen>> \o SlugOf(g.name) \o <<T_NavHrefClose>> \o escape(g.name)
    \o <<T_CountOpen>> \o FormatStr(g.count) \o <<T_NavLinkClose>>

\* the keys a release is subscripted with, in the order of lines 47-59
ReleaseKeysRead == <<"title", "artist", "rating", "have", "want", "power_rank">>

TitleCellNoneOnly(r) ==
    LET link == Get(r, "link", StrV(<<>>))
    IN  IF TruthyNotNone(link)
        THEN <<T_LinkOpen>> \o escape(link.s) \o <<T_LinkHrefClose>>
             \o escape(r.title) \o <<T_LinkClose>>
        ELSE escape(r.title)

\* lines 47-54
TitleCell(r) ==
    LET link == Get(r, "link", StrV(<<>>))
    IN  IF Truthy(link)
        THEN <<T_LinkOpen>> \o escape(link.s) \o <<T_LinkHrefClose>>
             \o escape(r.title) \o <<T_LinkClose>>
        ELSE escape(r.title)

\* lines 56-59
RatingCell(r) == IF r.rating.t # "null" THEN FormatF2(r.rating) ELSE <<EmDash>>
HaveCell(r)   == IF r.have.t # "null" THEN FormatStr(r.have) ELSE <<EmDash>>
WantCell(r)   == IF r.want.t # "null" THEN FormatStr(r.want) ELSE <<EmDash>>
PowerCell(r)  == IF r.power_rank.t # "null" THEN FormatComma0(r.power_rank) ELSE <<EmDash>>

\* lines 61-69
RowHtml(rank, r) ==
    <<T_RowOpen>> \o FormatStr(IntV(0, rank))
    \o <<T_ArtistOpen>> \o escape(r.artist)
    \o <<T_AlbumOpen>> \o TitleCell(r)
    \o <<T_RatingOpen>> \o RatingCell(r)
    \o <<T_HaveOpen>> \o HaveCell(r)
    \o <<T_WantOpen>> \o WantCell(r)
    \o <<T_PowerOpen>> \o PowerCell(r)
    \o <<T_RowClose>>

NextRankStuck(rank) == rank

\* line 70: genre_rank += 1
NextRank(rank) == rank + 1

\* lines 72-91
SectionHtml(sl, g, rows) ==
    <<T_SectionOpen>> \o sl \o <<T_SectionIdClose>> \o escape(g.name)
    \o <<T_SectionCountOpen>> \o FormatStr(g.count) \o <<T_TbodyOpen>>
    \o Join(<<T_RowSep>>, rows) \o <<T_TbodyClose>>

DocumentHtmlNoFooter(nav, sections) ==
    <<T_DocHead, T_Header, T_NavOpen>> \o nav \o <<T_NavClose, T_MainOpen>>
    \o sections \o <<T_MainClose, T_DocTail>>

\* lines 96-360
DocumentHtml(nav, sections) ==
    <<T_DocHead, T_Header, T_NavOpen>> \o nav \o <<T_NavClose, T_MainOpen>>
    \o sections \o <<T_MainClose, T_Footer, T_DocTail>>

\* ---------------------------------------------------------- the program
VARIABLES
    pc,            \* the part of main() that runs next; "done" or "failed" at the end
    err,           \* the uncaught exception that ended the run, or NoErr
    inputFile,     \* what JSON_PATH holds
    env0,          \* the file system when main() started
    dirExists,     \* docs/ exists
    outFile,       \* docs/index.html
    data,          \* line 22
    generated,     \* line 27
    genres,        \* line 28
    gi,            \* position of the for loops of lines 35 and 42
    nav_items,     \* line 34
    nav_html,      \* line 38
    sections_html, \* line 41
    slug,          \* line 43
    rows_html,     \* line 44
    genre_rank,    \* line 45
    ri,            \* position of the for loop of line 46
    html           \* line 96

vars ==
    <<pc, err, inputFile, env0, dirExists, outFile, data, generated, genres, gi,
      nav_items, nav_html, sections_html, slug, rows_html, genre_rank, ri, html>>

locals ==
    <<data, generated, genres, gi, nav_items, nav_html, sections_html, slug,
      rows_html, genre_rank, ri, html>>

fsvars == <<dirExists, outFile>>

StageAfterWriteFirst(stage) ==
    CASE stage = "load"     -> "keys"
      [] stage = "keys"     -> "mkdir"
      [] stage = "mkdir"    -> "open"
      [] stage = "open"     -> "nav"
      [] stage = "nav"      -> "sections"
      [] stage = "sections" -> "assemble"
      [] stage = "assemble" -> "write"
      [] stage = "write"    -> "done"

\* the order of the statements of main()
StageAfter(stage) ==
    CASE stage = "load"     -> "keys"
      [] stage = "keys"     -> "nav"
      [] stage = "nav"      -> "sections"
      [] stage = "sections" -> "assemble"
      [] stage = "assemble" -> "mkdir"
      [] stage = "mkdir"    -> "open"
      [] stage = "open"     -> "write"
      [] stage = "write"    -> "done"

Init ==
    /\ inputFile \in InputFiles
    /\ env0 \in Environments
    /\ dirExists = env0.dir
    /\ outFile = env0.file
    /\ pc = "load"
    /\ err = NoErr
    /\ data = [loaded |-> FALSE]
    /\ generated = <<>>
    /\ genres = <<>>
    /\ gi = 0
    /\ nav_items = <<>>
    /\ nav_html = <<>>
    /\ sections_html = <<>>
    /\ slug = <<>>
    /\ rows_html = <<>>
    /\ genre_rank = 0
    /\ ri = 0
    /\ html = <<>>

\* an uncaught exception ends main()
Raise(e) ==
    /\ pc' = "failed"
    /\ err' = e

\* lines 21-22
LoadData ==
    /\ pc = "load"
    /\ IF ~inputFile.exists
       THEN Raise([type |-> "FileNotFoundError", key |-> "", at |-> "load"])
            /\ UNCHANGED data
       ELSE IF ~inputFile.parses
       THEN Raise([type |-> "JSONDecodeError", key |-> "", at |-> "load"])
            /\ UNCHANGED data
       ELSE /\ data' = inputFile.data
            /\ pc' = StageAfter("load")
            /\ UNCHANGED err
    /\ UNCHANGED <<inputFile, env0, fsvars, generated, genres, gi, nav_items, nav_html,
                   sections_html, slug, rows_html, genre_rank, ri, html>>

\* lines 24-34
ReadTopLevel ==
    /\ pc = "keys"
    /\ IF TopLevelMissing(data) # ""
       THEN /\ Raise(KeyError(TopLevelMissing(data), "keys"))
            /\ UNCHANGED <<generated, genres, gi, nav_items>>
       ELSE /\ generated' = Prefix(data.generated.s, 10)
            /\ genres' = data.genres
            /\ nav_items' = <<>>
            /\ gi' = 1
            /\ pc' = StageAfter("keys")
            /\ UNCHANGED err
    /\ UNCHANGED <<inputFile, env0, fsvars, data, nav_html, sections_html, slug,
                   rows_html, genre_rank, ri, html>>

\* lines 35-37, one turn of the loop
BuildNavItem ==
    /\ pc = "nav"
    /\ gi <= Len(genres)
    /\ LET g == genres[gi]
           missing == FirstMissing(g, <<"name", "count">>)
       IN  IF missing # ""
           THEN Raise(KeyError(missing, "nav")) /\ UNCHANGED <<nav_items, gi>>
           ELSE /\ nav_items' = Append(nav_items, NavItem(g))
                /\ gi' = gi + 1
                /\ UNCHANGED <<pc, err>>
    /\ UNCHANGED <<inputFile, env0, fsvars, data, generated, genres, nav_html,
                   sections_html, slug, rows_html, genre_rank, ri, html>>

\* lines 38-41, after the loop
JoinNav ==
    /\ pc = "nav"
    /\ gi > Len(genres)
    /\ nav_html' = Join(<<T_NavSep>>, nav_items)
    /\ sections_html' = <<>>
    /\ gi' = 1
    /\ pc' = StageAfter("nav")
    /\ UNCHANGED <<err, inputFile, env0, fsvars, data, generated, genres, nav_items,
                   slug, rows_html, genre_rank, ri, html>>

\* lines 42-46: a turn of the outer loop up to the start of the inner loop
StartSection ==
    /\ pc = "sections"
    /\ gi <= Len(genres)
    /\ LET g == genres[gi]
           missing == FirstMissing(g, <<"name", "releases">>)
       IN  IF missing # ""
           THEN Raise(KeyError(missing, "sections"))
                /\ UNCHANGED <<slug, rows_html, genre_rank, ri>>
           ELSE /\ slug' = SlugOf(g.name)
                /\ rows_html' = <<>>
                /\ genre_rank' = 1
                /\ ri' = 1
                /\ pc' = "row"
                /\ UNCHANGED err
    /\ UNCHANGED <<inputFile, env0, fsvars, data, generated, genres, gi, nav_items,
                   nav_html, sections_html, html>>

\* lines 46-70, one turn of the inner loop
RenderRow ==
    /\ pc = "row"
    /\ ri <= Len(genres[gi].releases)
    /\ LET r == genres[gi].releases[ri]
           missing == FirstMissing(r, ReleaseKeysRead)
       IN  IF missing # ""
           THEN Raise(KeyError(missing, "row")) /\ UNCHANGED <<rows_html, genre_rank, ri>>
           ELSE /\ rows_html' = Append(rows_html, RowHtml(genre_rank, r))
                /\ genre_rank' = NextRank(genre_rank)
                /\ ri' = ri + 1
                /\ UNCHANGED <<pc, err>>
    /\ UNCHANGED <<inputFile, env0, fsvars, data, generated, genres, gi, nav_items,
                   nav_html, sections_html, slug, html>>

\* lines 72-91, the end of a turn of the outer loop
FinishSection ==
    /\ pc = "row"
    /\ ri > Len(genres[gi].releases)
    /\ LET g == genres[gi]
       IN  IF ~HasKey(g, "count")
           THEN Raise(KeyError("count", "sections")) /\ UNCHANGED <<sections_html, gi>>
           ELSE /\ sections_html' = Append(sections_html, SectionHtml(slug, g, rows_html))
                /\ gi' = gi + 1
                /\ pc' = "sections"
                /\ UNCHANGED err
    /\ UNCHANGED <<inputFile, env0, fsvars, data, generated, genres, nav_items,
                   nav_html, slug, rows_html, genre_rank, ri, html>>

\* line 93, after the outer loop
JoinSections ==
    /\ pc = "sections"
    /\ gi > Len(genres)
    /\ pc' = StageAfter("sections")
    /\ UNCHANGED <<err, inputFile, env0, fsvars, locals>>

\* lines 93-360
Assemble ==
    /\ pc = "assemble"
    /\ html' = DocumentHtml(nav_html, Join(<<T_SectionSep>>, sections_html))
    /\ pc' = StageAfter("assemble")
    /\ UNCHANGED <<err, inputFile, env0, fsvars, data, generated, genres, gi,
                   nav_items, nav_html, sections_html, slug, rows_html, genre_rank, ri>>

\* line 363: os.makedirs(DOCS_DIR, exist_ok=True)
MakeDirs ==
    /\ pc = "mkdir"
    /\ IF dirExists
       THEN pc' = StageAfter("mkdir") /\ UNCHANGED <<err, dirExists>>
       ELSE IF env0.writable
       THEN pc' = StageAfter("mkdir") /\ dirExists' = TRUE /\ UNCHANGED err
       ELSE Raise([type |-> "PermissionError", key |-> "", at |-> "mkdir"])
            /\ UNCHANGED dirExists
    /\ UNCHANGED <<inputFile, env0, outFile, locals>>

\* line 366: open(html_path, "w") creates the file or truncates it
OpenOutput ==
    /\ pc = "open"
    /\ IF dirExists /\ env0.writable
       THEN /\ outFile' = [exists |-> TRUE, content |-> <<>>]
            /\ pc' = StageAfter("open")
            /\ UNCHANGED err
       ELSE /\ Raise([type |-> IF dirExists THEN "PermissionError" ELSE "FileNotFoundError",
                      key |-> "", at |-> "open"])
            /\ UNCHANGED outFile
    /\ UNCHANGED <<inputFile, env0, dirExists, locals>>

\* lines 367-371: f.write(html), the file is closed, main() returns
WriteOutput ==
    /\ pc = "write"
    /\ outFile' = [exists |-> TRUE, content |-> html]
    /\ pc' = StageAfter("write")
    /\ UNCHANGED <<err, inputFile, env0, dirExists, locals>>

Next ==
    \/ LoadData
    \/ ReadTopLevel
    \/ BuildNavItem
    \/ JoinNav
    \/ StartSection
    \/ RenderRow
    \/ FinishSection
    \/ JoinSections
    \/ Assemble
    \/ MakeDirs
    \/ OpenOutput
    \/ WriteOutput

Spec == Init /\ [][Next]_vars

\* ------------------------------------------------- reading the document
\* The page a visitor gets: what docs/index.html holds after a run that ended
\* normally.
Doc == outFile.content

Finished == pc = "done"

RawSpecial == {"<", ">", "&", "\""}

Count(doc, tok) == Cardinality({i \in 1..Len(doc) : doc[i] = tok})

\* index of the k-th unit of doc that is tok
IndexOfKth(doc, tok, k) ==
    LET at == {i \in 1..Len(doc) : doc[i] = tok}
    IN  CHOOSE i \in at : Cardinality({j \in at : j <= i}) = k

\* index of the first unit after position i that is tok
FirstAfter(doc, i, tok) ==
    CHOOSE j \in (i + 1)..Len(doc) :
        doc[j] = tok /\ \A m \in (i + 1)..(j - 1) : doc[m] # tok

\* the units after position i up to the next unit that is tok
Between(doc, i, tok) == SubSeq(doc, i + 1, FirstAfter(doc, i, tok) - 1)

\* the units that follow the first openTok after position i, up to closeTok
Cell(doc, i, openTok, closeTok) == Between(doc, FirstAfter(doc, i, openTok), closeTok)

NavHref(i) == Between(Doc, IndexOfKth(Doc, T_NavLinkOpen, i), T_NavHrefClose)

NavText(i) ==
    Cell(Doc, IndexOfKth(Doc, T_NavLinkOpen, i), T_NavHrefClose, T_CountOpen)

SectionStart(g) == IndexOfKth(Doc, T_SectionOpen, g)

SectionEnd(g) == FirstAfter(Doc, SectionStart(g), T_TbodyClose)

SectionId(g) == Between(Doc, SectionStart(g), T_SectionIdClose)

SectionHeading(g) == Cell(Doc, SectionStart(g), T_SectionIdClose, T_SectionCountOpen)

RowStarts(g) == {i \in SectionStart(g)..SectionEnd(g) : Doc[i] = T_RowOpen}

RowStart(g, k) ==
    CHOOSE i \in RowStarts(g) : Cardinality({j \in RowStarts(g) : j <= i}) = k

RankCell(g, k)   == Between(Doc, RowStart(g, k), T_ArtistOpen)
ArtistCell(g, k) == Cell(Doc, RowStart(g, k), T_ArtistOpen, T_AlbumOpen)
AlbumCell(g, k)  == Cell(Doc, RowStart(g, k), T_AlbumOpen, T_RatingOpen)
RatingCellAt(g, k) == Cell(Doc, RowStart(g, k), T_RatingOpen, T_HaveOpen)
HaveCellAt(g, k)   == Cell(Doc, RowStart(g, k), T_HaveOpen, T_WantOpen)
WantCellAt(g, k)   == Cell(Doc, RowStart(g, k), T_WantOpen, T_PowerOpen)
PowerCellAt(g, k)  == Cell(Doc, RowStart(g, k), T_PowerOpen, T_RowClose)

IsAnchor(cell) == Len(cell) > 0 /\ cell[1] = T_LinkOpen

AnchorHref(cell) == Between(cell, 1, T_LinkHrefClose)

AnchorText(cell) == Cell(cell, 1, T_LinkHrefClose, T_LinkClose)

\* the visible text of an album cell
AlbumText(cell) == IF IsAnchor(cell) THEN AnchorText(cell) ELSE cell

\* what a browser shows for escaped text
UnescapeUnit(u) ==
    CASE u = "&amp;"  -> "&"
      [] u = "&lt;"   -> "<"
      [] u = "&gt;"   -> ">"
      [] u = "&quot;" -> "\""
      [] u = "&#x27;" -> "'"
      [] OTHER        -> u

Unescape(s) == [i \in 1..Len(s) |-> UnescapeUnit(s[i])]

RECURSIVE DecimalOf(_)
DecimalOf(k) ==
    IF k < 10 THEN <<DigitUnits[k + 1]>>
    ELSE DecimalOf(k \div 10) \o <<DigitUnits[(k % 10) + 1]>>

\* every (genre, row) position of the input
RowPositions == {<<g, k>> \in (1..Len(genres)) \X (1..(MaxReleases + 1)) :
                    k <= Len(genres[g].releases)}

ReleaseAt(p) == genres[p[1]].releases[p[2]]

\* the input file is there, parses and has every key main() subscripts
InputComplete ==
    /\ inputFile.exists /\ inputFile.parses
    /\ \A k \in {"snapshot", "total_unique", "total_entries", "generated", "genres"} :
          k \in DOMAIN inputFile.data

\* only the output path can make the run fail
FailedOnOutputOnly == pc = "failed" => err.at \in {"mkdir", "open"}

FileSystemUntouched == dirExists = env0.dir /\ outFile = env0.file

\* ------------------------------------------------------------------ C1
\* C1: in the written page, section g has exactly as many rows as genre g has
\* releases, and its k-th row shows rank k (restarting at 1 in every section)
\* together with the artist and title of the k-th release of the genre, whatever
\* the ratings, have, want and power ranks are.
C1_RankIsPosition ==
    Finished =>
        /\ \A g \in 1..Len(genres) : Cardinality(RowStarts(g)) = Len(genres[g].releases)
        /\ Count(Doc, T_RowOpen) = Cardinality(RowPositions)
        /\ \A p \in RowPositions :
              /\ RankCell(p[1], p[2]) = DecimalOf(p[2])
              /\ Unescape(ArtistCell(p[1], p[2])) = ReleaseAt(p).artist
              /\ Unescape(AlbumText(AlbumCell(p[1], p[2]))) = ReleaseAt(p).title

\* two sections, the second with two rows whose ratings are not in descending
\* order: the rank restarts, and does not follow the rating
C1_Witness ==
    /\ Finished
    /\ Len(genres) = 2
    /\ Len(genres[1].releases) >= 1
    /\ Len(genres[2].releases) = 2
    /\ genres[2].releases[1].rating.t = "null"
    /\ genres[2].releases[2].rating.t = "float"
    /\ RankCell(2, 2) = <<"2">>

\* ------------------------------------------------------------------ C2
\* the slug as the specification words it: lower-cased, every space a hyphen
SlugAsSpecified(name) ==
    [i \in 1..Len(name) |-> IF name[i] = " " THEN "-" ELSE lower(<<name[i]>>)[1]]

\* C2: the written page has one navigation link and one table section per genre,
\* in input order, and the text after '#' in the i-th link's href is the text of
\* the i-th section's id, both the slug of the i-th genre's name.
C2_NavMatchesSections ==
    Finished =>
        /\ Count(Doc, T_NavLinkOpen) = Len(genres)
        /\ Count(Doc, T_SectionOpen) = Len(genres)
        /\ \A i \in 1..Len(genres) :
              /\ NavHref(i) = SectionId(i)
              /\ NavHref(i) = SlugAsSpecified(genres[i].name)
              /\ IndexOfKth(Doc, T_NavLinkOpen, i) < FirstAfter(Doc, 1, T_NavClose)
              /\ SectionStart(i) > FirstAfter(Doc, 1, T_MainOpen)

\* two genres, one of them with an upper-case letter and two spaces in its name
C2_Witness ==
    /\ Finished
    /\ Len(genres) = 2
    /\ genres[1].name # genres[2].name
    /\ \E i \in 1..2 : Cardinality({j \in 1..Len(genres[i].name) : genres[i].name[j] = " "}) = 2
    /\ NavHref(1) = SectionId(1)

\* ------------------------------------------------------------------ C3
InsideTbody(i) ==
    \E j \in 1..(i - 1) :
        Doc[j] = T_TbodyOpen /\ \A m \in j..i : Doc[m] # T_TbodyClose

\* C3: in the written page no character <, >, & or " of a title, an artist or a
\* link stands unescaped in a table row, and the artist cell, the title text and
\* the href of the title's link read back as the field they were made from.
C3_ReleaseTextEscaped ==
    Finished =>
        /\ \A i \in 1..Len(Doc) : Doc[i] \in RawSpecial => ~InsideTbody(i)
        /\ \A p \in RowPositions :
              LET cell == AlbumCell(p[1], p[2])
              IN  /\ ArtistCell(p[1], p[2]) = escape(ReleaseAt(p).artist)
                  /\ AlbumText(cell) = escape(ReleaseAt(p).title)
                  /\ IsAnchor(cell) => Unescape(AnchorHref(cell)) = ReleaseAt(p).link.s

\* a row whose title is <s>, whose artist has & and " and whose link has & and "
C3_Witness ==
    /\ Finished
    /\ \E p \in RowPositions :
          /\ ReleaseAt(p).title = <<"<", "s", ">">>
          /\ AlbumText(AlbumCell(p[1], p[2])) = <<"&lt;", "s", "&gt;">>
          /\ ArtistCell(p[1], p[2]) = <<"&amp;", "&quot;">>
          /\ AnchorHref(AlbumCell(p[1], p[2])) = <<"u", "&amp;", "&quot;", "v">>

\* ------------------------------------------------------------------ C4
OptionalNumeric == <<"rating", "have", "want", "power_rank">>

Absent(r, k) == k \notin DOMAIN r \/ r[k].t = "null"

NumericCellAt(p, k) ==
    CASE k = "rating"     -> RatingCellAt(p[1], p[2])
      [] k = "have"       -> HaveCellAt(p[1], p[2])
      [] k = "want"       -> WantCellAt(p[1], p[2])
      [] k = "power_rank" -> PowerCellAt(p[1], p[2])

\* C4: a release that lacks rating, have, want or power_rank (the key missing, or
\* its value null) does not make the run fail, and in the written page the cell
\* of such a field is the placeholder exactly when the field is absent.
C4_AbsentOptionalRendersPlaceholder ==
    /\ pc = "failed" =>
          ~(err.type = "KeyError" /\ \E i \in 1..4 : err.key = OptionalNumeric[i])
    /\ Finished =>
          \A p \in RowPositions : \A i \in 1..4 :
              (NumericCellAt(p, OptionalNumeric[i]) = <<EmDash>>)
                  <=> Absent(ReleaseAt(p), OptionalNumeric[i])

\* ------------------------------------------------------------------ C5
RequiredTopLevel == {"snapshot", "total_unique", "total_entries", "generated", "genres"}

LacksTopLevelKey ==
    /\ inputFile.exists /\ inputFile.parses
    /\ \E k \in RequiredTopLevel : k \notin DOMAIN inputFile.data

\* C5: when the loaded JSON lacks a required top-level key the run never gets
\* past reading the keys: no HTML is built, docs/ and docs/index.html stay as
\* they were, the run does not end normally, and when it ends it ends with a
\* KeyError naming a key the data lacks.
C5_MissingTopLevelKeyAborts ==
    LacksTopLevelKey =>
        /\ pc \in {"load", "keys", "failed"}
        /\ html = <<>> /\ nav_items = <<>> /\ sections_html = <<>>
        /\ FileSystemUntouched
        /\ pc = "failed" =>
              /\ err.type = "KeyError"
              /\ err.key \in RequiredTopLevel
              /\ err.key \notin DOMAIN inputFile.data

\* the run has ended on a missing "snapshot", with an older page on disk
C5_Witness ==
    /\ LacksTopLevelKey
    /\ "snapshot" \notin DOMAIN inputFile.data
    /\ pc = "failed"
    /\ err.key = "snapshot"
    /\ outFile.content = OldContent

\* ------------------------------------------------------------------ C6
NoGenres == InputComplete /\ inputFile.data.genres = <<>>

\* C6: with an empty genres list nothing but the output path can make the run
\* fail, and the written page has an empty navigation block, no navigation link
\* and no table section, and still has the header and the footer.
C6_EmptyDataset ==
    NoGenres =>
        /\ FailedOnOutputOnly
        /\ Finished =>
              /\ Count(Doc, T_NavLinkOpen) = 0
              /\ Count(Doc, T_SectionOpen) = 0
              /\ Between(Doc, IndexOfKth(Doc, T_NavOpen, 1), T_NavClose) = <<>>
              /\ Between(Doc, IndexOfKth(Doc, T_MainOpen, 1), T_MainClose) = <<>>
              /\ Count(Doc, T_Header) = 1
              /\ Count(Doc, T_Footer) = 1

C6_Witness == NoGenres /\ Finished /\ Count(Doc, T_Header) = 1 /\ ~env0.dir

\* ------------------------------------------------------------------ C7
NonEmptyLink(r) == "link" \in DOMAIN r /\ r.link.t = "str" /\ r.link.s # <<>>

\* C7: in the written page the title cell of a release is a link, with the
\* escaped link as its href and the escaped title as its text, exactly when the
\* release has a non-empty link; otherwise it is the escaped title and holds no
\* anchor.
C7_TitleLinkedIffLink ==
    Finished =>
        \A p \in RowPositions :
            LET cell == AlbumCell(p[1], p[2])
                r    == ReleaseAt(p)
            IN  /\ IsAnchor(cell) <=> NonEmptyLink(r)
                /\ NonEmptyLink(r) =>
                      /\ AnchorHref(cell) = escape(r.link.s)
                      /\ AnchorText(cell) = escape(r.title)
                /\ ~NonEmptyLink(r) =>
                      /\ cell = escape(r.title)
                      /\ Count(cell, T_LinkOpen) = 0 /\ Count(cell, T_LinkClose) = 0

\* one page with a linked title and with titles whose link is "", null and missing
C7_Witness ==
    /\ Finished
    /\ \E p \in RowPositions : NonEmptyLink(ReleaseAt(p)) /\ IsAnchor(AlbumCell(p[1], p[2]))
    /\ \E p \in RowPositions :
          /\ "link" \in DOMAIN ReleaseAt(p)
          /\ ReleaseAt(p).link.t = "str" /\ ReleaseAt(p).link.s = <<>>
          /\ ~IsAnchor(AlbumCell(p[1], p[2]))
    /\ \E p \in RowPositions :
          /\ "link" \in DOMAIN ReleaseAt(p) /\ ReleaseAt(p).link.t = "null"
          /\ ~IsAnchor(AlbumCell(p[1], p[2]))
    /\ \E p \in RowPositions :
          "link" \notin DOMAIN ReleaseAt(p) /\ ~IsAnchor(AlbumCell(p[1], p[2]))

\* ------------------------------------------------------------------ C8
StripCommas(s) == SelectSeq(s, LAMBDA u : u # ",")

\* digits in threes from the right, a comma between the groups, nothing else
GroupedInThrees(cell, digits) ==
    /\ StripCommas(cell) = digits
    /\ \A i \in 1..Len(cell) : (cell[i] = ",") <=> ((Len(cell) - i + 1) % 4 = 0)
    /\ \A i \in 1..Len(cell) : cell[i] # "."

IsInt(r, k) == k \in DOMAIN r /\ r[k].t = "int"

\* an integer a Python float holds exactly: at most 2^53
AtMostTwoTo53(v) == v.hi < 2^26 \/ (v.hi = 2^26 /\ v.lo = 0)

PlainIntegers(p) ==
    /\ IsInt(ReleaseAt(p), "have") =>
          HaveCellAt(p[1], p[2]) = DigitsOf(ReleaseAt(p).have.hi, ReleaseAt(p).have.lo)
    /\ IsInt(ReleaseAt(p), "want") =>
          WantCellAt(p[1], p[2]) = DigitsOf(ReleaseAt(p).want.hi, ReleaseAt(p).want.lo)

\* C8 as claimed: for every non-negative integer power_rank n the power-rank
\* cell holds the decimal digits of n in groups of three from the right with
\* commas and no decimal point; have and want integers are their plain digits.
C8_PowerRankGroupedAnyInteger ==
    Finished =>
        \A p \in RowPositions :
            /\ IsInt(ReleaseAt(p), "power_rank") =>
                  GroupedInThrees(PowerCellAt(p[1], p[2]),
                      DigitsOf(ReleaseAt(p).power_rank.hi, ReleaseAt(p).power_rank.lo))
            /\ PlainIntegers(p)

\* C8 amended: the same for every integer power_rank n with 0 <= n <= 2^53.
C8_PowerRankGroupedUpTo2To53 ==
    Finished =>
        \A p \in RowPositions :
            /\ (IsInt(ReleaseAt(p), "power_rank") /\ AtMostTwoTo53(ReleaseAt(p).power_rank)) =>
                  GroupedInThrees(PowerCellAt(p[1], p[2]),
                      DigitsOf(ReleaseAt(p).power_rank.hi, ReleaseAt(p).power_rank.lo))
            /\ PlainIntegers(p)

\* one page showing 1,500 and another power rank below 1000 with no separator
C8_Witness ==
    /\ Finished
    /\ \E p \in RowPositions :
          /\ ReleaseAt(p).power_rank = IntV(0, 1500)
          /\ PowerCellAt(p[1], p[2]) = <<"1", ",", "5", "0", "0">>
          /\ HaveCellAt(p[1], p[2]) = <<"1", "0">>
    /\ \E p \in RowPositions :
          /\ IsInt(ReleaseAt(p), "power_rank")
          /\ ReleaseAt(p).power_rank.hi = 0 /\ ReleaseAt(p).power_rank.lo < 1000
          /\ Count(PowerCellAt(p[1], p[2]), ",") = 0

\* ------------------------------------------------------------------ C9
NoRaw(s, chars) == \A i \in 1..Len(s) : s[i] \notin chars

\* C9: in the written page the text of a genre name is escaped wherever it is
\* embedded: the link text and the heading hold none of <, >, &, " raw, and the
\* href of the link and the id of the section hold no raw ", which would end
\* the attribute.
C9_GenreNameEscapedEverywhere ==
    Finished =>
        \A i \in 1..Len(genres) :
            /\ NoRaw(NavText(i), RawSpecial)
            /\ NoRaw(SectionHeading(i), RawSpecial)
            /\ NoRaw(NavHref(i), {"\""})
            /\ NoRaw(SectionId(i), {"\""})

\* ------------------------------------------------------------------ C10
\* C10: docs/ and docs/index.html differ from what they were when the run
\* started only once the whole document has been rendered; a run that fails
\* while loading or rendering leaves both as they were, and the file never
\* holds anything but its old content, nothing (between open and write) or the
\* whole document.
C10_WriteOnlyAfterRender ==
    /\ ~FileSystemUntouched =>
          /\ html # <<>>
          /\ html = DocumentHtml(nav_html, Join(<<T_SectionSep>>, sections_html))
          /\ gi > Len(genres)
          /\ pc \in {"open", "write", "done", "failed"}
          /\ FailedOnOutputOnly
    /\ (pc = "failed" /\ err.at \in {"load", "keys", "nav", "sections", "row"}) =>
          FileSystemUntouched
    /\ outFile # env0.file =>
          /\ pc \in {"write", "done"}
          /\ outFile.content = IF pc = "write" THEN <<>> ELSE html

\* a release without artist ended the run in the inner loop; the older page is
\* still on disk
C10_Witness ==
    /\ pc = "failed"
    /\ err = KeyError("artist", "row")
    /\ gi = 2
    /\ outFile = [exists |-> TRUE, content |-> OldContent]

====
